---------------------------- MODULE Spec2Model ----------------------------
(***************************************************************************)
(* Trade-performance core: the GET /api/trades aggregator (capital         *)
(* blending, equity curve, statistics) and the audit import (POST          *)
(* /api/audit, GET /api/audit/process) with its uniqueness-keyed store.    *)
(*                                                                         *)
(* Numbers.  JavaScript numbers are modelled exactly: integers are         *)
(* integers, and every quotient the code computes is kept as the pair      *)
(* [num, den] of its operands (den = 0 stands for the IEEE results of a    *)
(* division by zero: NaN when num = 0, an infinity otherwise).  Rounding   *)
(* of binary floating point is not modelled.                               *)
(*                                                                         *)
(* Time.  A timestamp is a whole number of ticks, TicksPerDay ticks to     *)
(* the day; `new Date(s).getTime()` of a stored date is its tick count.    *)
(***************************************************************************)
EXTENDS Integers, Sequences, FiniteSets, TLC

VARIABLES
    files,      \* public/data/<dataset>: the parsed rows of each trade CSV
    request,    \* the query of the last GET /api/trades
    response,   \* the reply to it
    fileReads,  \* the datasets whose file that GET has read
    store,      \* the rows of the AuditedTrade table
    imports,    \* the audit imports in flight: their batch, pending creates, results
    text,       \* an OCR text block: its lines, each a sequence of tokens
    parsed,     \* what parseAuditedTradeData made of it
    points,     \* an equity curve handed to the statistics and to the cohort hook
    cohortData, \* what useCohortData returned for it
    curveStats, \* what the statistics functions returned for it
    selection,  \* the Home page: its algorithms and startDate state
    loads,      \* the loadTradeData calls its effect has started, in order
    chartData   \* the chartData state of the Home page

tradeVars == <<files, request, response, fileReads>>
auditVars == <<store, imports>>
parserVars == <<text, parsed>>
curveVars == <<points, cohortData, curveStats>>
homeVars == <<selection, loads, chartData>>
vars == <<files, request, response, fileReads, store, imports, text, parsed,
          points, cohortData, curveStats, selection, loads, chartData>>

---------------------------------------------------------------------------
(* Bounds of the model *)

MaxRows == 3            \* rows over all trade files
MaxAlgos == 2           \* selections in one request
TicksPerDay == 2        \* ticks to the day
MaxBatch == 2           \* trades parsed from one audit image

Ticks == {0, 1}                     \* the timestamps of the data
PnLValues == {-200, 300, 500}       \* raw PnL of a row
UnitValues == {1, 2}                \* units of a selection
Datasets == {"nq_trades.csv", "unlisted.csv"}

---------------------------------------------------------------------------
(* Exact quotients *)

Rat(n, d) == [num |-> n, den |-> d]
Zero == Rat(0, 1)
IsNaN(q) == q.num = 0 /\ q.den = 0
IsInfinite(q) == q.num # 0 /\ q.den = 0
IsFinite(q) == q.den # 0
IsZero(q) == q.num = 0 /\ q.den # 0
\* q > 0 as JavaScript evaluates it (NaN > 0 is false, Infinity > 0 is true)
IsPositive(q) ==
    \/ q.den > 0 /\ q.num > 0
    \/ q.den < 0 /\ q.num < 0
    \/ q.den = 0 /\ q.num > 0
Neg(q) == Rat(0 - q.num, q.den)

\* a/b < c/d for a, c >= 0 and b, d > 0, by the Euclidean expansion (no products)
RECURSIVE FracLess(_, _, _, _)
FracLess(a, b, c, d) ==
    LET qa == a \div b
        qc == c \div d
        ra == a % b
        rc == c % d
    IN  IF qa # qc THEN qa < qc
        ELSE IF rc = 0 THEN FALSE
        ELSE IF ra = 0 THEN TRUE
        ELSE FracLess(d, rc, b, ra)

\* Math.max of two non-negative quotients (an infinity is the greater)
RatMax(p, q) ==
    IF p.den = 0 THEN p
    ELSE IF q.den = 0 THEN q
    ELSE IF FracLess(p.num, p.den, q.num, q.den) THEN q ELSE p

\* Math.ceil(n / d) for d > 0
CeilDiv(n, d) == 0 - ((0 - n) \div d)

Max(a, b) == IF a >= b THEN a ELSE b

---------------------------------------------------------------------------
(* GET /api/trades *)

CAPITAL_REQUIREMENTS ==
    [d \in {"nq_trades.csv", "mnq_trades.csv", "es_trades.csv", "mes_trades.csv"} |->
        CASE d = "nq_trades.csv" -> 100000
          [] d = "mnq_trades.csv" -> 25000
          [] d = "es_trades.csv" -> 100000
          [] d = "mes_trades.csv" -> 10000]

\* variant: a dataset without configured requirement is given that of mnq
BaseCapitalFlat(dataset) ==
    IF dataset \in DOMAIN CAPITAL_REQUIREMENTS THEN CAPITAL_REQUIREMENTS[dataset]
    ELSE CAPITAL_REQUIREMENTS["mnq_trades.csv"]

\* CAPITAL_REQUIREMENTS[algo.dataset] || 0
BaseCapital(dataset) ==
    IF dataset \in DOMAIN CAPITAL_REQUIREMENTS THEN CAPITAL_REQUIREMENTS[dataset] ELSE 0

\* variant: a trade entered at the start date itself is dropped too
FilterAfterStartDate(trades, startDate) ==
    IF Len(startDate) > 0
    THEN SelectSeq(trades, LAMBDA trade : trade.Entry_Date > startDate[1])
    ELSE trades

\* startDate is <<>> for an absent or empty parameter, <<t>> otherwise
FilterByStartDate(trades, startDate) ==
    IF Len(startDate) > 0
    THEN SelectSeq(trades, LAMBDA trade : trade.Entry_Date >= startDate[1])
    ELSE trades

RECURSIVE SumUnits(_, _, _)
SumUnits(algorithms, dataset, i) ==
    IF i > Len(algorithms) THEN 0
    ELSE (IF algorithms[i].dataset = dataset THEN algorithms[i].units ELSE 0)
         + SumUnits(algorithms, dataset, i + 1)

TotalUnits(algorithms, dataset) == SumUnits(algorithms, dataset, 1)

\* variant: a dataset is scaled by the units of its first selection alone
OwnUnits(algorithms, algo) == algo.units

\* the scaling multiplier of a dataset's trades
ScaleUnits(algorithms, algo) == TotalUnits(algorithms, algo.dataset)

\* filteredTrades.map(...): scaled trades with the dataset's own running equity
RECURSIVE ScaleTrades(_, _, _, _, _, _)
ScaleTrades(trades, i, totalUnits, equity, dataset, baseCapital) ==
    IF i > Len(trades) THEN <<>>
    ELSE LET scaledPnL == trades[i].PnL * totalUnits
             eq == equity + scaledPnL
         IN  <<[Entry_Date |-> trades[i].Entry_Date,
                Exit_Date |-> trades[i].Exit_Date,
                PnL |-> scaledPnL,
                equity |-> eq,
                algorithm |-> dataset,
                units |-> totalUnits,
                baseCapital |-> baseCapital * totalUnits]>>
             \o ScaleTrades(trades, i + 1, totalUnits, eq, dataset, baseCapital)

RECURSIVE SumPnL(_, _)
SumPnL(trades, i) ==
    IF i > Len(trades) THEN 0 ELSE trades[i].PnL + SumPnL(trades, i + 1)

\* processedDatasets.has(algo.dataset)
AlreadyProcessed(processedDatasets, dataset) == dataset \in processedDatasets

\* the loop over the selections
RECURSIVE ProcessAlgorithms(_, _, _, _, _)
ProcessAlgorithms(data, algorithms, startDate, i, acc) ==
    IF i > Len(algorithms) THEN acc
    ELSE LET algo == algorithms[i]
             baseCapital == BaseCapital(algo.dataset)
             algoCapital == baseCapital * algo.units
             capital == acc.totalInitialCapital + algoCapital
         IN  IF AlreadyProcessed(acc.processedDatasets, algo.dataset)
             THEN ProcessAlgorithms(data, algorithms, startDate, i + 1,
                      [acc EXCEPT !.totalInitialCapital = capital])
             ELSE LET filteredTrades == FilterByStartDate(data[algo.dataset], startDate)
                      totalUnits == ScaleUnits(algorithms, algo)
                      processedTrades == ScaleTrades(filteredTrades, 1, totalUnits,
                                             algoCapital, algo.dataset, baseCapital)
                  IN  ProcessAlgorithms(data, algorithms, startDate, i + 1,
                          [totalInitialCapital |-> capital,
                           totalPnL |-> acc.totalPnL + SumPnL(processedTrades, 1),
                           combinedTrades |-> acc.combinedTrades \o processedTrades,
                           processedDatasets |-> acc.processedDatasets \cup {algo.dataset}])

\* the comparator of combinedTrades.sort: negative, zero or positive
CompareTrades(a, b) == a.Entry_Date - b.Entry_Date

\* variant: an unstable sort, an element goes before the ones it equals
RECURSIVE InsertBeforeEqual(_, _)
InsertBeforeEqual(sorted, t) ==
    IF sorted = <<>> THEN <<t>>
    ELSE IF CompareTrades(sorted[Len(sorted)], t) < 0 THEN Append(sorted, t)
    ELSE Append(InsertBeforeEqual(SubSeq(sorted, 1, Len(sorted) - 1), t),
                sorted[Len(sorted)])

\* Array.prototype.sort is stable: an element goes after every one not greater
RECURSIVE InsertSorted(_, _)
InsertSorted(sorted, t) ==
    IF sorted = <<>> THEN <<t>>
    ELSE IF CompareTrades(sorted[Len(sorted)], t) <= 0 THEN Append(sorted, t)
    ELSE Append(InsertSorted(SubSeq(sorted, 1, Len(sorted) - 1), t), sorted[Len(sorted)])

RECURSIVE SortTrades(_, _)
SortTrades(trades, n) ==
    IF n = 0 THEN <<>> ELSE InsertSorted(SortTrades(trades, n - 1), trades[n])

\* variant: the combined curve accumulates from zero
EquitySeedZero(totalInitialCapital) == 0

\* the seed of the combined curve's running equity
EquitySeed(totalInitialCapital) == totalInitialCapital

\* variant: the peak starts at zero, so the first equity is the first peak
PeakSeedZero(totalInitialCapital) == 0

\* the seed of peakEquity
PeakSeed(totalInitialCapital) == totalInitialCapital

\* variant: the drawdown of the latest point replaces the maximum
LatestDrawdown(maxDrawdownDollars, drawdownDollars) == drawdownDollars

\* maxDrawdownDollars = Math.max(maxDrawdownDollars, drawdownDollars)
MaxDrawdownAfter(maxDrawdownDollars, drawdownDollars) ==
    Max(maxDrawdownDollars, drawdownDollars)

\* drawdownPercent of one point
DrawdownPercent(equity, peakEquity) ==
    IF equity < peakEquity THEN Rat((peakEquity - equity) * 100, peakEquity) ELSE Zero

\* drawdownDollars of one point
DrawdownDollars(equity, peakEquity) ==
    IF equity < peakEquity THEN peakEquity - equity ELSE 0

\* the timestamp of a curve point
CurveDate(trade) == trade.Exit_Date

\* combinedTrades.map(...): the walk that builds the equity curve
RECURSIVE BuildCurve(_, _, _)
BuildCurve(trades, i, acc) ==
    IF i > Len(trades) THEN acc
    ELSE LET equity == acc.equity + trades[i].PnL
             peakEquity == Max(acc.peakEquity, equity)
             drawdownPercent == DrawdownPercent(equity, peakEquity)
             drawdownDollars == DrawdownDollars(equity, peakEquity)
         IN  BuildCurve(trades, i + 1,
                 [equity |-> equity,
                  peakEquity |-> peakEquity,
                  maxDrawdownPercent |-> RatMax(acc.maxDrawdownPercent, drawdownPercent),
                  maxDrawdownDollars |->
                      MaxDrawdownAfter(acc.maxDrawdownDollars, drawdownDollars),
                  curve |-> Append(acc.curve,
                               [date |-> CurveDate(trades[i]),
                                equity |-> equity,
                                pnl |-> trades[i].PnL,
                                drawdown |-> Neg(drawdownPercent)])])

\* the duration in whole days between two timestamps
DurationDays(from, to) == CeilDiv(to - from, TicksPerDay)

\* the running maximum calculateDrawdownStats starts from
StatsPeakSeed(equityCurve) == equityCurve[1].equity

\* the record pushed when a drawdown period is recorded
PeriodOf(st) == [duration |-> st.currentDuration, drawdown |-> st.currentDrawdown]

\* if (drawdownStart && currentDrawdown > 0) drawdownPeriods.push(...)
PushPeriod(st) ==
    IF Len(st.drawdownStart) > 0 /\ IsPositive(st.currentDrawdown)
    THEN Append(st.drawdownPeriods, PeriodOf(st))
    ELSE st.drawdownPeriods

\* the periods after the loop: the one still open is added
ClosePeriods(st) == PushPeriod(st)

\* one iteration of equityCurve.forEach in calculateDrawdownStats
StatsStep(st, point) ==
    IF point.equity > st.maxEquity
    THEN [st EXCEPT !.maxEquity = point.equity,
                    !.drawdownPeriods = PushPeriod(st),
                    !.drawdownStart = <<>>,
                    !.currentDuration = 0,
                    !.currentDrawdown = Zero]
    ELSE IF point.equity < st.maxEquity
    THEN LET start == IF Len(st.drawdownStart) = 0 THEN <<point.date>> ELSE st.drawdownStart
             duration == DurationDays(start[1], point.date)
         IN  [st EXCEPT !.drawdownStart = start,
                        !.currentDuration = duration,
                        !.currentDrawdown =
                            Rat((st.maxEquity - point.equity) * 100, st.maxEquity),
                        !.maxDuration = Max(st.maxDuration, duration)]
    ELSE st

RECURSIVE StatsWalk(_, _, _)
StatsWalk(equityCurve, i, st) ==
    IF i > Len(equityCurve) THEN st
    ELSE StatsWalk(equityCurve, i + 1, StatsStep(st, equityCurve[i]))

\* drawdownPeriods.sort((a, b) => a.duration - b.duration), stable
RECURSIVE InsertPeriod(_, _)
InsertPeriod(sorted, p) ==
    IF sorted = <<>> THEN <<p>>
    ELSE IF sorted[Len(sorted)].duration - p.duration <= 0 THEN Append(sorted, p)
    ELSE Append(InsertPeriod(SubSeq(sorted, 1, Len(sorted) - 1), p), sorted[Len(sorted)])

RECURSIVE SortPeriods(_, _)
SortPeriods(periods, n) ==
    IF n = 0 THEN <<>> ELSE InsertPeriod(SortPeriods(periods, n - 1), periods[n])

\* the index (from 1) of the median element of n sorted periods
MedianIndex(n) == (n \div 2) + 1

RECURSIVE SumDurations(_, _)
SumDurations(periods, i) ==
    IF i > Len(periods) THEN 0 ELSE periods[i].duration + SumDurations(periods, i + 1)

\* calculateDrawdownStats of a non-empty curve (equityCurve[0].equity of an empty
\* one throws a TypeError: see HandleGET).  avgDrawdownPercent is kept as the
\* terms of its sum and their count.
CalculateDrawdownStats(equityCurve) ==
    LET st0 == [maxEquity |-> StatsPeakSeed(equityCurve),
                drawdownStart |-> <<>>,
                currentDrawdown |-> Zero,
                maxDuration |-> 0,
                currentDuration |-> 0,
                drawdownPeriods |-> <<>>]
        st == StatsWalk(equityCurve, 1, st0)
        drawdownPeriods == ClosePeriods(st)
        n == Len(drawdownPeriods)
    IN  [maxDrawdownDuration |-> st.maxDuration,
         avgDrawdownDuration |->
             IF n > 0 THEN Rat(SumDurations(drawdownPeriods, 1), n) ELSE Zero,
         medianDrawdownDuration |->
             IF n > 0 THEN SortPeriods(drawdownPeriods, n)[MedianIndex(n)].duration ELSE 0,
         avgDrawdownPercent |->
             [terms |-> [i \in 1 .. n |-> drawdownPeriods[i].drawdown], count |-> n],
         totalDrawdownPeriods |-> n,
         drawdownPeriods |-> drawdownPeriods]

RECURSIVE GCD(_, _)
GCD(a, b) == IF b = 0 THEN a ELSE GCD(b, a % b)

Abs(n) == IF n < 0 THEN 0 - n ELSE n

\* the quotient n / d in lowest terms with a positive denominator
Quot(n, d) ==
    IF d = 0 THEN Rat(IF n > 0 THEN 1 ELSE IF n < 0 THEN 0 - 1 ELSE 0, 0)
    ELSE LET g == GCD(Abs(n), Abs(d))
             s == IF d < 0 THEN 0 - 1 ELSE 1
         IN  Rat(s * (n \div g), s * (d \div g))

\* p / q and p * n of quotients
QuotDiv(p, q) == Quot(p.num * q.den, p.den * q.num)
QuotTimes(p, n) == Quot(p.num * n, p.den)

Winning(trades) == SelectSeq(trades, LAMBDA t : t.PnL > 0)
Losing(trades) == SelectSeq(trades, LAMBDA t : t.PnL < 0)

\* avgWin and avgLoss
AverageWin(trades) ==
    LET winningTrades == Winning(trades)
    IN  IF Len(winningTrades) > 0
        THEN Quot(SumPnL(winningTrades, 1), Len(winningTrades)) ELSE Zero

AverageLoss(trades) ==
    LET losingTrades == Losing(trades)
    IN  IF Len(losingTrades) > 0
        THEN Quot(Abs(SumPnL(losingTrades, 1)), Len(losingTrades)) ELSE Zero

\* profitFactor: avgLoss === 0 ? 0 : (avgWin * wins) / (avgLoss * losses)
ProfitFactor(trades) ==
    LET avgWin == AverageWin(trades)
        avgLoss == AverageLoss(trades)
    IN  IF IsZero(avgLoss) THEN Zero
        ELSE QuotDiv(QuotTimes(avgWin, Len(Winning(trades))),
                     QuotTimes(avgLoss, Len(Losing(trades))))

\* payoffRatio: avgLoss === 0 ? 0 : avgWin / avgLoss
PayoffRatio(trades) ==
    LET avgLoss == AverageLoss(trades)
    IN  IF IsZero(avgLoss) THEN Zero ELSE QuotDiv(AverageWin(trades), avgLoss)

\* winLossRatio: winningTrades.length / (losingTrades.length || 1)
WinLossRatio(trades) ==
    LET losses == Len(Losing(trades))
    IN  Quot(Len(Winning(trades)), IF losses = 0 THEN 1 ELSE losses)

\* the window of the recent metrics, in days
RecentDays == 90

\* profitFactor of calculateRecentMetrics:
\* totalLosses === 0 ? totalWins : totalWins / totalLosses
RecentProfitFactor(totalWins, totalLosses) ==
    IF totalLosses = 0 THEN Rat(totalWins, 1) ELSE Quot(totalWins, totalLosses)

\* calculateRecentMetrics(trades, days): the trades that exit within `days` days
\* of the exit of the last trade
CalculateRecentMetrics(trades, days) ==
    IF Len(trades) = 0 THEN [profitFactor |-> Zero, winRate |-> Zero]
    ELSE LET endDate == trades[Len(trades)].Exit_Date
             startDate == endDate - days * TicksPerDay
             recentTrades == SelectSeq(trades, LAMBDA t : t.Exit_Date >= startDate)
             winningTrades == Winning(recentTrades)
             totalWins == SumPnL(winningTrades, 1)
             totalLosses == Abs(SumPnL(Losing(recentTrades), 1))
         IN  IF Len(recentTrades) = 0 THEN [profitFactor |-> Zero, winRate |-> Zero]
             ELSE [profitFactor |-> RecentProfitFactor(totalWins, totalLosses),
                   winRate |-> Quot(Len(winningTrades), Len(recentTrades))]

\* calculateTradingDays: whole days from the first entry to the last exit
CalculateTradingDays(trades) ==
    IF Len(trades) = 0 THEN 0
    ELSE CeilDiv(trades[Len(trades)].Exit_Date - trades[1].Entry_Date, TicksPerDay)

\* the average month of calculateTradingMonths, in hundredths of a day (30.44)
DaysPerMonthTimes100 == 3044

\* calculateTradingMonths: tradingDays / 30.44
CalculateTradingMonths(trades) ==
    Quot(CalculateTradingDays(trades) * 100, DaysPerMonthTimes100)

\* calculateCalmarRatio: 0 without a drawdown, otherwise
\* ((totalPnL / tradingMonths) * 12) / maxDrawdown
CalculateCalmarRatio(totalPnL, maxDrawdown, trades) ==
    IF maxDrawdown = 0 THEN Zero
    ELSE LET tradingMonths == CalculateTradingMonths(trades)
             annualizedReturn == QuotDiv(Rat(totalPnL * 12, 1), tradingMonths)
         IN  QuotDiv(annualizedReturn, Rat(maxDrawdown, 1))

\* calculateUlcerIndex: the percentage drawdown of each point below the running
\* maximum, which starts at the equity of the first point
RECURSIVE UlcerDrawdowns(_, _, _)
UlcerDrawdowns(equityCurve, i, maxEquity) ==
    IF i > Len(equityCurve) THEN <<>>
    ELSE LET peak == Max(maxEquity, equityCurve[i].equity)
             drawdown == IF equityCurve[i].equity < peak
                         THEN Rat((peak - equityCurve[i].equity) * 100, peak) ELSE Zero
         IN  <<drawdown>> \o UlcerDrawdowns(equityCurve, i + 1, peak)

\* the ulcer index is sqrt(sum of drawdown^2 / count), kept as its drawdowns
CalculateUlcerIndex(equityCurve) ==
    [drawdowns |-> UlcerDrawdowns(equityCurve, 1, equityCurve[1].equity),
     count |-> Len(equityCurve)]

\* the metadata object of the reply
Metadata(combinedTrades, totalPnL, totalInitialCapital, built, ulcerIndex, drawdownStats) ==
    [totalTrades |-> Len(combinedTrades),
     winRate |-> Quot(Len(Winning(combinedTrades)), Len(combinedTrades)),
     totalPnL |-> totalPnL,
     maxDrawdownDollars |-> built.maxDrawdownDollars,
     maxDrawdownPercent |-> built.maxDrawdownPercent,
     pnlPercent |-> Quot(totalPnL * 100, totalInitialCapital),
     averageWin |-> AverageWin(combinedTrades),
     averageLoss |-> AverageLoss(combinedTrades),
     profitFactor |-> ProfitFactor(combinedTrades),
     payoffRatio |-> PayoffRatio(combinedTrades),
     winLossRatio |-> WinLossRatio(combinedTrades),
     expectancy |-> Quot(totalPnL, Len(combinedTrades)),
     recoveryFactor |->
         IF built.maxDrawdownDollars = 0 THEN Zero
         ELSE Quot(totalPnL, built.maxDrawdownDollars),
     ulcerIndex |-> ulcerIndex,
     maxDrawdownDuration |-> drawdownStats.maxDrawdownDuration,
     avgDrawdownDuration |-> drawdownStats.avgDrawdownDuration,
     medianDrawdownDuration |-> drawdownStats.medianDrawdownDuration,
     avgDrawdownPercent |-> drawdownStats.avgDrawdownPercent,
     totalDrawdownPeriods |-> drawdownStats.totalDrawdownPeriods,
     calmarRatio |->
         CalculateCalmarRatio(totalPnL, built.maxDrawdownDollars, combinedTrades),
     profitFactor3Month |-> CalculateRecentMetrics(combinedTrades, RecentDays).profitFactor,
     winRate3Month |-> CalculateRecentMetrics(combinedTrades, RecentDays).winRate,
     avgProfitPerDay |-> Quot(totalPnL, CalculateTradingDays(combinedTrades)),
     avgTradesPerDay |-> Quot(Len(combinedTrades), CalculateTradingDays(combinedTrades)),
     tradingDays |-> CalculateTradingDays(combinedTrades),
     tradingMonths |-> CalculateTradingMonths(combinedTrades)]

NoResponse == [status |-> 0]
ServerError == [status |-> 500, error |-> "Failed to load trade data"]
BadRequest == [status |-> 400, error |-> "Algorithms parameter is required"]

\* searchParams.get('algorithms') is <<>> when the parameter is absent or
\* empty and <<algorithms>> when it holds the list; !algorithmsJson
MissingAlgorithms(algorithmsJson) == Len(algorithmsJson) = 0

\* the statement that throws on the curve: calculateDrawdownStats reads
\* equityCurve[0].equity, a TypeError when the curve is empty
StatsThrow(equityCurve) == Len(equityCurve) = 0

\* the body of GET for a request that has its algorithms parameter
HandleGET(data, algorithms, startDate) ==
    LET acc == ProcessAlgorithms(data, algorithms, startDate, 1,
                   [totalInitialCapital |-> 0, totalPnL |-> 0,
                    combinedTrades |-> <<>>, processedDatasets |-> {}])
        combinedTrades == SortTrades(acc.combinedTrades, Len(acc.combinedTrades))
        built == BuildCurve(combinedTrades, 1,
                     [equity |-> EquitySeed(acc.totalInitialCapital),
                      peakEquity |-> PeakSeed(acc.totalInitialCapital),
                      maxDrawdownPercent |-> Zero,
                      maxDrawdownDollars |-> 0,
                      curve |-> <<>>])
    IN  IF StatsThrow(built.curve) THEN ServerError
        ELSE [status |-> 200,
              trades |-> combinedTrades,
              metadata |-> Metadata(combinedTrades, acc.totalPnL, acc.totalInitialCapital,
                               built, CalculateUlcerIndex(built.curve),
                               CalculateDrawdownStats(built.curve)),
              equityCurve |-> built.curve]

---------------------------------------------------------------------------
(* The trade files and the requests *)

TotalRows == Len(files["nq_trades.csv"]) + Len(files["unlisted.csv"])

\* a trade row: it exits no earlier than it enters
Row(entry, exit, pnl) == [Entry_Date |-> entry, Exit_Date |-> exit, PnL |-> pnl]

\* a dataset's file lists its trades in time order, one after the other
CanFollow(rows, entry) ==
    IF Len(rows) = 0 THEN TRUE ELSE rows[Len(rows)].Exit_Date <= entry

Selections == [dataset : Datasets, units : UnitValues]

RECURSIVE SeqsUpTo(_, _)
SeqsUpTo(S, n) ==
    IF n = 0 THEN {<<>>}
    ELSE LET shorter == SeqsUpTo(S, n - 1)
         IN  shorter \cup {Append(q, x) : q \in {r \in shorter : Len(r) = n - 1}, x \in S}

\* no start date, or one after the first tick: it drops the trades entered at
\* tick 0, which may be some, all or none of the trades of a file
StartDates == {<<>>, <<1>>}

TradeInit ==
    /\ files = [d \in Datasets |-> <<>>]
    /\ request = [algorithmsJson |-> <<>>, algorithms |-> <<>>, startDate |-> <<>>]
    /\ response = NoResponse
    /\ fileReads = {}

\* a closed trade is written to a dataset's file (before the server is queried)
AppendRow(d, entry, exit, pnl) ==
    /\ response = NoResponse
    /\ TotalRows < MaxRows
    /\ entry <= exit
    /\ CanFollow(files[d], entry)
    /\ files' = [files EXCEPT ![d] = Append(@, Row(entry, exit, pnl))]
    /\ UNCHANGED <<request, response, fileReads, auditVars, parserVars, curveVars, homeVars>>

\* the files fs.readFile is called for: each dataset of the list, once
DatasetsRead(algorithms) == {algorithms[i].dataset : i \in 1 .. Len(algorithms)}

\* the values of the algorithms parameter: absent, or a list of selections
AlgorithmsJson == {<<>>} \cup {<<algorithms>> : algorithms \in SeqsUpTo(Selections, MaxAlgos)}

\* GET /api/trades?algorithms=...&startDate=...  The handler keeps nothing
\* between requests, so a behaviour follows one request.
GET(algorithmsJson, startDate) ==
    /\ response = NoResponse
    /\ IF MissingAlgorithms(algorithmsJson)
       THEN /\ request' = [algorithmsJson |-> algorithmsJson, algorithms |-> <<>>,
                            startDate |-> startDate]
            /\ response' = BadRequest
            /\ fileReads' = {}
       ELSE /\ request' = [algorithmsJson |-> algorithmsJson,
                            algorithms |-> algorithmsJson[1], startDate |-> startDate]
            /\ response' = HandleGET(files, algorithmsJson[1], startDate)
            /\ fileReads' = DatasetsRead(algorithmsJson[1])
    /\ UNCHANGED <<files, auditVars, parserVars, curveVars, homeVars>>

---------------------------------------------------------------------------
(* Properties of GET /api/trades *)

Replied == response.status = 200
Curve == response.equityCurve
Algorithms == request.algorithms

MaxOf(S) == CHOOSE m \in S : \A x \in S : x <= m

RECURSIVE SumTo(_, _)
SumTo(q, n) == IF n = 0 THEN 0 ELSE q[n] + SumTo(q, n - 1)

\* the units of all selections of a dataset, and the capital of all selections
UnitsOf(d) ==
    SumTo([i \in 1 .. Len(Algorithms) |->
              IF Algorithms[i].dataset = d THEN Algorithms[i].units ELSE 0], Len(Algorithms))

PerUnitCapital(d) == IF d = "nq_trades.csv" THEN 100000 ELSE 0

InitialCapital ==
    SumTo([i \in 1 .. Len(Algorithms) |->
              PerUnitCapital(Algorithms[i].dataset) * Algorithms[i].units], Len(Algorithms))

CurvePnL == [i \in 1 .. Len(Curve) |-> Curve[i].pnl]

\* the rows of a dataset the start date lets through
Kept(d) ==
    SelectSeq(files[d], LAMBDA row :
        Len(request.startDate) = 0 \/ row.Entry_Date >= request.startDate[1])

SelectedDatasets == {Algorithms[i].dataset : i \in 1 .. Len(Algorithms)}

\* the running peak of the account at point i: the initial capital and every
\* equity up to i
PeakAt(i) == MaxOf({InitialCapital} \cup {Curve[j].equity : j \in 1 .. i})

\* the magnitude of the drawdown percentage of point i (stored negated)
DrawdownAt(i) == Neg(Curve[i].drawdown)

\* C1: every curve point's equity is initialCapital plus the scaled pnl of the
\* points up to it, so the sum of all scaled pnl is finalEquity - initialCapital
\* and is metadata.totalPnL.
C1_EquityIsCapitalPlusPnL ==
    Replied =>
        /\ \A i \in 1 .. Len(Curve) : Curve[i].equity = InitialCapital + SumTo(CurvePnL, i)
        /\ SumTo(CurvePnL, Len(Curve)) = Curve[Len(Curve)].equity - InitialCapital
        /\ SumTo(CurvePnL, Len(Curve)) = response.metadata.totalPnL

\* a dataset selected twice (units 1 and 2), three trades, one of them a loss
C1_Witness ==
    /\ Replied
    /\ Len(Curve) = 3
    /\ Len(Algorithms) = 2
    /\ UnitsOf("nq_trades.csv") = 3
    /\ InitialCapital = 300000
    /\ response.metadata.totalPnL = 1800
    /\ \E i \in 1 .. 3 : Curve[i].pnl < 0

\* C2 as amended: the drawdown percentage of point i is 0 when equity[i] equals
\* the running peak taken over initialCapital and equity[0..i], and strictly
\* positive otherwise (an infinity when that peak is 0).
C2_DrawdownZeroAtPeak ==
    Replied =>
        \A i \in 1 .. Len(Curve) :
            IF Curve[i].equity = PeakAt(i)
            THEN IsZero(DrawdownAt(i))
            ELSE IsPositive(DrawdownAt(i))

\* C2 as stated: the peak is max(equity[0..i]), the points of the curve alone
C2_AsStated ==
    Replied =>
        \A i \in 1 .. Len(Curve) :
            IF Curve[i].equity = MaxOf({Curve[j].equity : j \in 1 .. i})
            THEN IsZero(DrawdownAt(i))
            ELSE IsPositive(DrawdownAt(i))

\* a curve that opens with a loss, recovers to a new peak and falls again
C2_Witness ==
    /\ Replied
    /\ Len(Curve) = 3
    /\ InitialCapital > 0
    /\ Curve[1].equity < InitialCapital /\ IsPositive(DrawdownAt(1))
    /\ Curve[2].equity > InitialCapital /\ IsZero(DrawdownAt(2))
    /\ Curve[3].equity < Curve[2].equity /\ IsPositive(DrawdownAt(3))

\* C3: a start date that excludes every trade of the selected datasets yields
\* a well-formed empty result (totalTrades 0, winRate 0, totalPnL 0, empty
\* curve), not an error.
C3_EmptyResultIsWellFormed ==
    ( /\ response # NoResponse
      /\ Len(request.startDate) > 0
      /\ \E d \in SelectedDatasets : Len(files[d]) > 0
      /\ \A d \in SelectedDatasets : Len(Kept(d)) = 0 )
    => /\ response.status = 200
       /\ response.metadata.totalTrades = 0
       /\ IsZero(response.metadata.winRate)
       /\ response.metadata.totalPnL = 0
       /\ response.equityCurve = <<>>

\* the trades of dataset d in the merged list, as (entry, exit, pnl)
MergedOf(d) ==
    LET own == SelectSeq(response.trades, LAMBDA t : t.algorithm = d)
    IN  [i \in 1 .. Len(own) |-> Row(own[i].Entry_Date, own[i].Exit_Date, own[i].PnL)]

\* C4: a dataset selected several times is processed once: each of its kept
\* trades is in the merged list and the curve exactly once, its pnl the raw
\* pnl times the units of all selections of the dataset.
C4_SharedDatasetScaledOnce ==
    Replied =>
        /\ \A d \in SelectedDatasets :
               MergedOf(d) = [i \in 1 .. Len(Kept(d)) |->
                                 Row(Kept(d)[i].Entry_Date, Kept(d)[i].Exit_Date,
                                     Kept(d)[i].PnL * UnitsOf(d))]
        /\ \A t \in {response.trades[i] : i \in 1 .. Len(response.trades)} :
               t.algorithm \in SelectedDatasets
        /\ Len(Curve) = Len(response.trades)
        /\ \A i \in 1 .. Len(Curve) : Curve[i].pnl = response.trades[i].PnL

\* units 1 and 2 of the same dataset: 3 x the raw pnl, once
C4_Witness ==
    /\ Replied
    /\ Algorithms = <<[dataset |-> "nq_trades.csv", units |-> 1],
                      [dataset |-> "nq_trades.csv", units |-> 2]>>
    /\ Len(files["nq_trades.csv"]) = 2
    /\ Len(response.trades) = 2
    /\ files["nq_trades.csv"][1].PnL = 500 /\ response.trades[1].PnL = 1500
    /\ files["nq_trades.csv"][2].PnL = -200 /\ Curve[2].pnl = -600

\* C7: the timestamps of successive curve points never decrease.
C7_CurveChronological ==
    Replied => \A i \in 1 .. Len(Curve) - 1 : Curve[i].date <= Curve[i + 1].date

NoLosers == \A i \in 1 .. Len(response.trades) : response.trades[i].PnL >= 0
NoWinners == \A i \in 1 .. Len(response.trades) : response.trades[i].PnL <= 0

\* C8: profitFactor and winLossRatio are 0 whenever the trade set has no
\* losing trades or has no winning trades.
C8_RatiosZeroWithoutWinsOrLosses ==
    (Replied /\ (NoLosers \/ NoWinners)) =>
        /\ IsZero(response.metadata.profitFactor)
        /\ IsZero(response.metadata.winLossRatio)

\* C9: when the equity is below its running peak at the last curve point, the
\* open drawdown period is recorded: it counts in totalDrawdownPeriods and its
\* percentage is a term of avgDrawdownPercent.
C9_OpenDrawdownCounted ==
    (Replied /\ Curve[Len(Curve)].equity < PeakAt(Len(Curve))) =>
        /\ response.metadata.totalDrawdownPeriods >= 1
        /\ response.metadata.avgDrawdownPercent.count >= 1
        /\ IsPositive(response.metadata.avgDrawdownPercent.terms[
               response.metadata.avgDrawdownPercent.count])

\* C10: maxDrawdownDollars is the greatest (running peak - equity) of the curve
\* points, the peak seeded at initialCapital; one unit of nq_trades.csv with
\* raw pnl 500, -200, 300 gives equity 100500, 100300, 100600 and 200.
C10_MaxDrawdownDollars ==
    Replied =>
        /\ response.metadata.maxDrawdownDollars =
               MaxOf({PeakAt(i) - Curve[i].equity : i \in 1 .. Len(Curve)})
        /\ ( /\ Algorithms = <<[dataset |-> "nq_trades.csv", units |-> 1]>>
              /\ [i \in 1 .. Len(Kept("nq_trades.csv")) |-> Kept("nq_trades.csv")[i].PnL]
                     = <<500, -200, 300>> )
           => /\ [i \in 1 .. Len(Curve) |-> Curve[i].equity] = <<100500, 100300, 100600>>
              /\ response.metadata.maxDrawdownDollars = 200

\* the example of the claim
C10_Witness ==
    /\ Replied
    /\ Algorithms = <<[dataset |-> "nq_trades.csv", units |-> 1]>>
    /\ InitialCapital = 100000
    /\ [i \in 1 .. Len(Curve) |-> Curve[i].pnl] = <<500, -200, 300>>
    /\ response.metadata.maxDrawdownDollars = 200

RECURSIVE SumOver(_, _)
SumOver(S, f) ==
    IF S = {} THEN 0
    ELSE LET x == CHOOSE y \in S : TRUE IN f[x] + SumOver(S \ {x}, f)

\* the capital the curve started from, read off its first point
CapitalOfCurve == Curve[1].equity - Curve[1].pnl

\* C16: initialCapital is the sum over the distinct selected datasets of the
\* per-unit requirement times the units of all selections of the dataset; a
\* dataset without configured requirement adds 0 and causes no error (a
\* request that keeps at least one trade is answered with 200).
C16_InitialCapitalBlended ==
    /\ Replied =>
           /\ CapitalOfCurve =
                  SumOver(SelectedDatasets,
                          [d \in SelectedDatasets |-> PerUnitCapital(d) * UnitsOf(d)])
           /\ response.metadata.pnlPercent =
                  Quot(response.metadata.totalPnL * 100,
                       SumOver(SelectedDatasets,
                               [d \in SelectedDatasets |-> PerUnitCapital(d) * UnitsOf(d)]))
    /\ ( /\ response # NoResponse
         /\ \E d \in SelectedDatasets : Len(Kept(d)) > 0 )
       => Replied

\* a dataset without requirement next to two selections of nq_trades.csv
C16_Witness ==
    /\ Replied
    /\ Len(Algorithms) = 2
    /\ SelectedDatasets = {"nq_trades.csv", "unlisted.csv"}
    /\ UnitsOf("nq_trades.csv") = 2
    /\ Len(Kept("unlisted.csv")) > 0
    /\ CapitalOfCurve = 200000

\* the number of rows of the selected datasets the start date lets through
KeptCount == SumOver(SelectedDatasets, [d \in SelectedDatasets |-> Len(Kept(d))])

\* the scaled pnl of those rows
KeptPnL ==
    SumOver(SelectedDatasets,
            [d \in SelectedDatasets |->
                UnitsOf(d) * SumTo([i \in 1 .. Len(Kept(d)) |-> Kept(d)[i].PnL],
                                   Len(Kept(d)))])

\* C17: with a start date, the trades entered before it are in neither the
\* trade list nor the curve and add nothing to equity or totalPnL, and every
\* trade entered at or after it is kept (a request that keeps a trade is
\* answered with it); without one nothing is filtered.
C17_StartDateFilter ==
    /\ (response # NoResponse /\ KeptCount > 0) => Replied
    /\ Replied =>
        /\ \A i \in 1 .. Len(response.trades) :
               Len(request.startDate) = 0
                   \/ response.trades[i].Entry_Date >= request.startDate[1]
        /\ Len(response.trades) = KeptCount
        /\ Len(Curve) = KeptCount
        /\ response.metadata.totalTrades = KeptCount
        /\ response.metadata.totalPnL = KeptPnL
        /\ Curve[Len(Curve)].equity = CapitalOfCurve + KeptPnL
        /\ Len(request.startDate) = 0 =>
               Len(response.trades) =
                   SumOver(SelectedDatasets, [d \in SelectedDatasets |-> Len(files[d])])

\* a file with a trade entered before the start date and one entered on it:
\* the second alone is in the result
C17_Witness ==
    /\ Replied
    /\ request.startDate = <<1>>
    /\ Algorithms = <<[dataset |-> "nq_trades.csv", units |-> 1]>>
    /\ Len(files["nq_trades.csv"]) = 2
    /\ files["nq_trades.csv"][1].Entry_Date = 0
    /\ files["nq_trades.csv"][2].Entry_Date = 1
    /\ Len(response.trades) = 1
    /\ response.trades[1].Entry_Date = 1
    /\ response.metadata.totalPnL = files["nq_trades.csv"][2].PnL

\* C19: the running peak of calculateDrawdownStats and of calculateUlcerIndex
\* is the peakEquity of the curve builder (seeded at initialCapital): a point
\* counts as in drawdown in the statistics exactly when its curve drawdown is
\* not zero, so totalDrawdownPeriods >= 1 and ulcerIndex > 0 whenever
\* maxDrawdownDollars > 0.
C19_StatsPeakIsCurvePeak ==
    Replied =>
        /\ \A i \in 1 .. Len(Curve) :
               IsZero(response.metadata.ulcerIndex.drawdowns[i]) <=> IsZero(DrawdownAt(i))
        /\ response.metadata.maxDrawdownDollars > 0 =>
               /\ response.metadata.totalDrawdownPeriods >= 1
               /\ \E i \in 1 .. Len(Curve) :
                      IsPositive(response.metadata.ulcerIndex.drawdowns[i])

\* the sums a profit factor is made of
WinSum(trades) == SumPnL(Winning(trades), 1)
LossSum(trades) == Abs(SumPnL(Losing(trades), 1))

\* the trades of the reply inside the recent window
RecentTrades ==
    LET trades == response.trades
    IN  SelectSeq(trades, LAMBDA t :
            t.Exit_Date >= trades[Len(trades)].Exit_Date - RecentDays * TicksPerDay)

\* win sum over loss sum, the raw win sum when the loss sum is zero
WinsOverLosses(trades) ==
    IF LossSum(trades) = 0 THEN Rat(WinSum(trades), 1)
    ELSE Quot(WinSum(trades), LossSum(trades))

\* C21: in every reply profitFactor is the sum of the winning pnl over the
\* absolute sum of the losing pnl, and the raw sum of the winning pnl when no
\* trade loses; profitFactor3Month is the same over the trades of the window.
C21_ProfitFactorRawWinSum ==
    Replied =>
        /\ response.metadata.profitFactor = WinsOverLosses(response.trades)
        /\ response.metadata.profitFactor3Month = WinsOverLosses(RecentTrades)

\* the running peak of calculateDrawdownStats when it reaches point k of a
\* curve: the equity of the first point and every equity before k
StatsPeakBefore(curve, k) ==
    MaxOf({curve[1].equity} \cup {curve[j].equity : j \in 1 .. k - 1})

BelowPeak(curve, k) == curve[k].equity < StatsPeakBefore(curve, k)
AbovePeak(curve, k) == curve[k].equity > StatsPeakBefore(curve, k)

\* a drawdown is open after point k: some point up to k was below the peak and
\* no point since has exceeded it
OpenAfter(curve, k) ==
    \E j \in 1 .. k : BelowPeak(curve, j) /\ \A i \in (j + 1) .. k : ~AbovePeak(curve, i)

\* the points that close a drawdown: they exceed the peak while one is open
ClosingPoints(curve) ==
    {k \in 2 .. Len(curve) : AbovePeak(curve, k) /\ OpenAfter(curve, k - 1)}

\* C22: a drawdown period is recorded exactly when a point strictly exceeds
\* the running peak while a drawdown is open, one period for each such point;
\* a point equal to the peak opens and closes nothing.  On a curve that ends
\* with no drawdown open, the recorded periods are as many as those points.
C22_PeriodRecordedAtNewPeak ==
    (Replied /\ ~OpenAfter(Curve, Len(Curve))) =>
        response.metadata.totalDrawdownPeriods = Cardinality(ClosingPoints(Curve))

\* the place of a dataset in the selection list: its first appearance
FirstSelected(d) ==
    CHOOSE i \in 1 .. Len(Algorithms) :
        /\ Algorithms[i].dataset = d
        /\ \A j \in 1 .. i - 1 : Algorithms[j].dataset # d

\* C24: the merged trades are in ascending order of entry time; trades of equal
\* entry time are in insertion order: those of the dataset selected first come
\* first, and the trades of one dataset are in the row order of its file.
C24_StableMergeByEntry ==
    Replied =>
        /\ \A i, j \in 1 .. Len(response.trades) :
               i < j =>
                   /\ response.trades[i].Entry_Date <= response.trades[j].Entry_Date
                   /\ response.trades[i].Entry_Date = response.trades[j].Entry_Date =>
                          FirstSelected(response.trades[i].algorithm)
                              <= FirstSelected(response.trades[j].algorithm)
        /\ \A d \in SelectedDatasets :
               MergedOf(d) = [i \in 1 .. Len(Kept(d)) |->
                                 Row(Kept(d)[i].Entry_Date, Kept(d)[i].Exit_Date,
                                     Kept(d)[i].PnL * UnitsOf(d))]

\* unlisted.csv selected before nq_trades.csv, each with a trade entered at
\* tick 0, and two trades of one file entered at the same tick with different
\* pnl: the trade of unlisted.csv is first, the two others in row order
C24_Witness ==
    /\ Replied
    /\ Len(Algorithms) = 2
    /\ Algorithms[1].dataset = "unlisted.csv" /\ Algorithms[2].dataset = "nq_trades.csv"
    /\ Len(files["nq_trades.csv"]) = 2 /\ Len(files["unlisted.csv"]) = 1
    /\ \A i \in 1 .. 3 : response.trades[i].Entry_Date = 0
    /\ files["nq_trades.csv"][1].PnL # files["nq_trades.csv"][2].PnL
    /\ response.trades[1].algorithm = "unlisted.csv"
    /\ response.trades[2].PnL = files["nq_trades.csv"][1].PnL * Algorithms[2].units
    /\ response.trades[3].PnL = files["nq_trades.csv"][2].PnL * Algorithms[2].units

\* C26: in every reply (a non-empty set of kept trades, a single trade that
\* exits at its entry time included) tradingDays and tradingMonths are > 0
\* where they divide: avgProfitPerDay, avgTradesPerDay and calmarRatio are
\* quotients with a non-zero denominator.
C26_TradingDaysPositive ==
    Replied =>
        /\ response.metadata.tradingDays > 0
        /\ IsPositive(response.metadata.tradingMonths)
        /\ IsFinite(response.metadata.avgProfitPerDay)
        /\ IsFinite(response.metadata.avgTradesPerDay)
        /\ IsFinite(response.metadata.calmarRatio)

---------------------------------------------------------------------------
(* The audit import: POST /api/audit and GET /api/audit/process *)

ImportIds == {1, 2}

\* the records parseAuditedTradeData can hand over: two of them differ in price only
AuditedTrades ==
    { [algorithm |-> "ES_Gap", symbol |-> "ES", type |-> "Buy", signal |-> "Entry",
       date |-> 1, time |-> "09:30", price |-> 4500],
      [algorithm |-> "ES_Gap", symbol |-> "ES", type |-> "Buy", signal |-> "Entry",
       date |-> 1, time |-> "09:30", price |-> 4501],
      [algorithm |-> "ES_Gap", symbol |-> "ES", type |-> "Buy", signal |-> "Exit",
       date |-> 1, time |-> "09:30", price |-> 4510] }

\* variant: the index also covers the price column
IndexKeyWithPrice(t) == <<t.algorithm, t.date, t.time, t.type, t.signal, t.price>>

\* the columns of the unique index AuditedTrade_algorithm_date_time_type_signal_key
IndexKey(t) == <<t.algorithm, t.date, t.time, t.type, t.signal>>

\* the row a create inserts: the trade under a fresh primary key
NewRow(id, t) ==
    [id |-> id, algorithm |-> t.algorithm, symbol |-> t.symbol, type |-> t.type,
     signal |-> t.signal, date |-> t.date, time |-> t.time, price |-> t.price]

\* prisma.auditedTrade.create: the unique index rejects a second row of a key
\* with the known-request error P2002, otherwise the row is inserted
DbCreate(table, id, t) ==
    IF \E r \in table : IndexKey(r) = IndexKey(t)
    THEN [ok |-> FALSE, code |-> "P2002", table |-> table]
    ELSE [ok |-> TRUE, code |-> "", table |-> table \cup {NewRow(id, t)}]

\* variant: the catch tests for another known-request error code
IsRecordNotFound(code) == code = "P2025"

\* the catch around create: error.code === 'P2002' is skipped, anything else rethrown
IsDuplicateError(code) == code = "P2002"

Pending == [state |-> "pending"]
Skipped == [state |-> "null"]
Threw == [state |-> "threw"]
Created(row) == [state |-> "created", row |-> row]

\* variant: the catch returns null for every error
CreateOutcomeSwallowed(result, row) ==
    IF result.ok THEN Created(row) ELSE Skipped

\* what one element of trades.map(async ...) settles to
CreateOutcome(result, row) ==
    IF result.ok THEN Created(row)
    ELSE IF IsDuplicateError(result.code) THEN Skipped
    ELSE Threw

\* the form of a request: whether it carries the file and the algorithm field
Forms == [file : BOOLEAN, algorithm : BOOLEAN]
CompleteForm == [file |-> TRUE, algorithm |-> TRUE]

\* variant: the handler tests for the file alone
HasFile(form) == form.file

\* the negation of `!file || !algorithm`
HasRequiredFields(form) == form.file /\ form.algorithm

Idle ==
    [phase |-> "idle", form |-> CompleteForm, recognized |-> FALSE,
     trades |-> <<>>, saved |-> <<>>, response |-> NoResponse,
     storeAtStart |-> {}, doneBefore |-> {}, failed |-> {}]

BadAuditRequest == [status |-> 400, error |-> "File and algorithm are required"]

\* a request answered by the check of the form: no OCR, no parse, no create
Rejected(form) ==
    [phase |-> "rejected", form |-> form, recognized |-> FALSE,
     trades |-> <<>>, saved |-> <<>>, response |-> BadAuditRequest,
     storeAtStart |-> {}, doneBefore |-> {}, failed |-> {}]

\* savedTrades.filter(Boolean)
RECURSIVE NewTrades(_, _)
NewTrades(saved, i) ==
    IF i > Len(saved) THEN <<>>
    ELSE (IF saved[i].state = "created" THEN <<saved[i].row>> ELSE <<>>)
         \o NewTrades(saved, i + 1)

AuditError == [status |-> 500, error |-> "Failed to process audit data"]
AuditOk(saved) == [status |-> 200, newTrades |-> NewTrades(saved, 1)]

\* a row that was in the table before any import
OldRow ==
    NewRow(<<0, 1>>, [algorithm |-> "ES_Gap", symbol |-> "ES", type |-> "Buy",
                      signal |-> "Entry", date |-> 1, time |-> "09:30", price |-> 4500])

\* POST /api/audit up to Promise.all: 400 for a form without file or algorithm;
\* otherwise OCR, the parsed trades, one create started for each.  storeAtStart
\* and doneBefore record the moment, and failed the creates the store failed,
\* for the properties.
POST(i, form, trades) ==
    /\ imports[i].phase = "idle"
    /\ imports' = [imports EXCEPT ![i] =
           IF ~HasRequiredFields(form) THEN Rejected(form)
           ELSE [phase |-> "creating", form |-> form, recognized |-> TRUE,
                 trades |-> trades,
                 saved |-> [k \in 1 .. Len(trades) |-> Pending],
                 response |-> NoResponse,
                 storeAtStart |-> store,
                 doneBefore |-> {j \in ImportIds : imports[j].phase = "done"},
                 failed |-> {}]]
    /\ UNCHANGED <<store, tradeVars, parserVars, curveVars, homeVars>>

\* the store executes one started create
Create(i, k) ==
    /\ imports[i].phase # "idle"
    /\ k \in 1 .. Len(imports[i].saved)
    /\ imports[i].saved[k] = Pending
    /\ LET result == DbCreate(store, <<i, k>>, imports[i].trades[k])
       IN  /\ store' = result.table
           /\ imports' = [imports EXCEPT ![i].saved[k] =
                  CreateOutcome(result, NewRow(<<i, k>>, imports[i].trades[k]))]
    /\ UNCHANGED <<tradeVars, parserVars, curveVars, homeVars>>

\* prisma.auditedTrade.create failing in the store for another reason than the
\* unique index (the database cannot be reached, P1001): nothing is inserted
DbCreateFails(table) == [ok |-> FALSE, code |-> "P1001", table |-> table]

\* the store fails one started create
CreateFails(i, k) ==
    /\ imports[i].phase # "idle"
    /\ k \in 1 .. Len(imports[i].saved)
    /\ imports[i].saved[k] = Pending
    /\ LET result == DbCreateFails(store)
       IN  /\ store' = result.table
           /\ imports' = [imports EXCEPT
                  ![i].saved[k] =
                      CreateOutcome(result, NewRow(<<i, k>>, imports[i].trades[k])),
                  ![i].failed = @ \cup {k}]
    /\ UNCHANGED <<tradeVars, parserVars, curveVars, homeVars>>

\* Promise.all settles: rejected by the first create that threw, fulfilled when
\* all have settled; the handler replies
Respond(i) ==
    /\ imports[i].phase = "creating"
    /\ LET saved == imports[i].saved
           rejected == \E k \in 1 .. Len(saved) : saved[k] = Threw
           settled == \A k \in 1 .. Len(saved) : saved[k] # Pending
       IN  /\ rejected \/ settled
           /\ imports' = [imports EXCEPT ![i].phase = "done",
                  ![i].response = IF rejected THEN AuditError ELSE AuditOk(saved)]
    /\ UNCHANGED <<store, tradeVars, parserVars, curveVars, homeVars>>

---------------------------------------------------------------------------
(* Properties of the audit import *)

\* the uniqueness key of an audited trade
KeyOf(t) == <<t.algorithm, t.date, t.time, t.type, t.signal>>

Done(i) == imports[i].phase = "done"
Quiescent ==
    \A i \in ImportIds :
        \/ imports[i].phase = "idle"
        \/ Done(i) /\ \A k \in 1 .. Len(imports[i].saved) : imports[i].saved[k] # Pending

BatchKeys(i) == {KeyOf(imports[i].trades[k]) : k \in 1 .. Len(imports[i].trades)}
StoredBefore == {KeyOf(r) : r \in {x \in store : x.id[1] = 0}}
NewCount(i) == IF Done(i) THEN Len(imports[i].response.newTrades) ELSE 0

\* C5: whatever the interleaving of the imports, the store never holds two
\* rows of one key, every import replies with success, every key of a finished
\* import is stored, and once all have finished the reported new-trade counts
\* add up to the number of distinct keys that were not stored before.
C5_ConcurrentImportsSafe ==
    /\ \A r1 \in store, r2 \in store : KeyOf(r1) = KeyOf(r2) => r1 = r2
    /\ \A i \in ImportIds : Done(i) =>
           /\ imports[i].response.status = 200
           /\ \A key \in BatchKeys(i) : \E r \in store : KeyOf(r) = key
    /\ Quiescent =>
           NewCount(1) + NewCount(2)
               = Cardinality((BatchKeys(1) \cup BatchKeys(2)) \ StoredBefore)

\* two imports that started before either finished, with the same two keys:
\* each created one row and skipped the other
C5_Witness ==
    /\ Done(1) /\ Done(2)
    /\ imports[1].doneBefore = {} /\ imports[2].doneBefore = {}
    /\ Cardinality(BatchKeys(1)) = 2 /\ BatchKeys(1) = BatchKeys(2)
    /\ NewCount(1) = 1 /\ NewCount(2) = 1
    /\ Cardinality(store) = 2

\* C6: importing a trade list again after its import has finished leaves the
\* store as it was, reports no new trade and replies with success.
C6_ReimportIsNoOp ==
    \A i \in ImportIds, j \in ImportIds :
        ( /\ Done(j) /\ i \in imports[j].doneBefore
          /\ imports[j].trades = imports[i].trades )
        => /\ imports[j].response.status = 200
           /\ imports[j].response.newTrades = <<>>
           /\ store = imports[j].storeAtStart

\* the same two trades imported a second time, the first import having stored both
C6_Witness ==
    /\ Done(1) /\ Done(2)
    /\ 1 \in imports[2].doneBefore
    /\ imports[2].trades = imports[1].trades
    /\ NewCount(1) = 2
    /\ NewCount(2) = 0

\* the imports whose form lacks the file or the algorithm
Incomplete(i) ==
    imports[i].phase # "idle" /\ ~(imports[i].form.file /\ imports[i].form.algorithm)

\* C18: a request without a required parameter is rejected before anything is
\* computed: GET /api/trades without `algorithms` replies 400 and reads no
\* dataset; POST /api/audit without `file` or `algorithm` replies 400, runs no
\* OCR and starts no create, so no row of the store is its own.
C18_MissingParameterRejected ==
    /\ (response # NoResponse /\ request.algorithmsJson = <<>>) =>
           /\ response.status = 400
           /\ fileReads = {}
    /\ \A i \in ImportIds :
           Incomplete(i) =>
               /\ imports[i].response.status = 400
               /\ ~imports[i].recognized
               /\ imports[i].saved = <<>>
               /\ \A row \in store : row.id[1] # i

\* the GET without algorithms was rejected with data on file, and an import
\* without algorithm was rejected while another import stored its trade
C18_Witness ==
    /\ response.status = 400
    /\ request.algorithmsJson = <<>>
    /\ Len(files["nq_trades.csv"]) > 0
    /\ Incomplete(1) /\ imports[1].form.file
    /\ imports[1].response.status = 400
    /\ Done(2) /\ NewCount(2) = 1
    /\ \E row \in store : row.id[1] = 2

\* C28: when the store fails a create of a batch for another reason than a
\* duplicate key, the handler replies 500 and reports no new trades, and the
\* rows that creates of the batch have inserted are in the table all the same.
C28_StorageErrorNotRolledBack ==
    \A i \in ImportIds :
        /\ (imports[i].phase = "done" /\ imports[i].failed # {}) =>
               /\ imports[i].response.status = 500
               /\ "newTrades" \notin DOMAIN imports[i].response
        /\ \A k \in 1 .. Len(imports[i].saved) :
               imports[i].saved[k].state = "created" => imports[i].saved[k].row \in store

\* a batch of two trades: the first create inserts its row, the second fails
\* in the store; the reply is 500 and the first row is in the table
C28_Witness ==
    \E i \in ImportIds :
        /\ imports[i].phase = "done"
        /\ Len(imports[i].saved) = 2
        /\ imports[i].saved[1].state = "created"
        /\ imports[i].failed = {2}
        /\ imports[i].response.status = 500
        /\ imports[i].saved[1].row \in store

---------------------------------------------------------------------------
(* The audit text parser: parseAuditedTradeData *)

MaxLines == 2           \* lines of a text block after its two heading lines
MaxTokens == 9          \* tokens on one line

\* a token is a string; Chars gives the characters of the tokens whose
\* characters the parser looks at (the alphabet has no decimal point)
Chars(tok) ==
    CASE tok = "$4,500" -> <<"$", "4", ",", "5", "0", "0">>
      [] tok = "$1,234,567" -> <<"$", "1", ",", "2", "3", "4", ",", "5", "6", "7">>
      [] tok = "$1,250" -> <<"$", "1", ",", "2", "5", "0">>
      [] tok = "2%" -> <<"2", "%">>
      [] tok = "2" -> <<"2">>
      [] tok = "n/a" -> <<"n", "/", "a">>
      [] OTHER -> <<"?">>

Digits == {"0", "1", "2", "3", "4", "5", "6", "7", "8", "9"}

DigitValue(c) ==
    CASE c = "0" -> 0 [] c = "1" -> 1 [] c = "2" -> 2 [] c = "3" -> 3 [] c = "4" -> 4
      [] c = "5" -> 5 [] c = "6" -> 6 [] c = "7" -> 7 [] c = "8" -> 8 [] c = "9" -> 9

\* String.prototype.replace(c, ''): the first occurrence of c is removed
RECURSIVE ReplaceFirst(_, _)
ReplaceFirst(s, c) ==
    IF s = <<>> THEN <<>>
    ELSE IF s[1] = c THEN Tail(s)
    ELSE <<s[1]>> \o ReplaceFirst(Tail(s), c)

\* the value of the longest prefix of digits of s continuing the value n
RECURSIVE DigitPrefix(_, _)
DigitPrefix(s, n) ==
    IF s = <<>> \/ s[1] \notin Digits THEN n
    ELSE DigitPrefix(Tail(s), 10 * n + DigitValue(s[1]))

NaN == Rat(0, 0)

\* parseFloat and parseInt(_, 10) of a string without decimal point: an
\* optional sign and the leading digits, NaN when there is no leading digit
ParseNumber(s) ==
    LET negative == s # <<>> /\ s[1] = "-"
        body == IF negative THEN Tail(s) ELSE s
    IN  IF body = <<>> \/ body[1] \notin Digits THEN NaN
        ELSE Rat((IF negative THEN 0 - 1 ELSE 1) * DigitPrefix(body, 0), 1)

\* parseFloat(tok.replace('$', '').replace(',', ''))
ParseDollars(tok) == ParseNumber(ReplaceFirst(ReplaceFirst(Chars(tok), "$"), ","))

\* parseFloat(tok.replace('%', ''))
ParsePercent(tok) == ParseNumber(ReplaceFirst(Chars(tok), "%"))

\* parseInt(tok, 10)
ParseInt(tok) == ParseNumber(Chars(tok))

InvalidDate == [valid |-> FALSE, day |-> 0]

\* new Date(tok): a Date object in every case, an Invalid Date for a string
\* that is no date; the constructor does not throw
NewDate(tok) ==
    IF tok = "2024-01-15" THEN [valid |-> TRUE, day |-> 19737] ELSE InvalidDate

\* line.trim().split(/\s+/).filter(Boolean): the non-empty tokens of the line
Tokenize(line) == SelectSeq(line, LAMBDA tok : tok # "")

\* variant: a line of seven tokens is let through
EnoughPartsLoose(parts) == Len(parts) >= 7

\* the lines that pass `if (parts.length < 8) return`
EnoughParts(parts) == Len(parts) >= 8

\* parts[k - 1] of the code, undefined beyond the end
Part(parts, k) == IF k <= Len(parts) THEN parts[k] ELSE ""

\* `if (parts[k - 1]) trade.field = parse(parts[k - 1])`: <<>> is undefined
Optional(parts, k, value) == IF Part(parts, k) # "" THEN <<value>> ELSE <<>>

\* the object built in the try block
TradeOf(parts, algorithm) ==
    [algorithm |-> algorithm,
     symbol |-> Part(parts, 2),
     type |-> Part(parts, 3),
     signal |-> Part(parts, 4),
     date |-> NewDate(Part(parts, 5)),
     time |-> Part(parts, 6),
     price |-> ParseDollars(Part(parts, 7)),
     contracts |-> ParseInt(Part(parts, 8)),
     profit |-> Optional(parts, 9, ParseDollars(Part(parts, 9))),
     profitPct |-> Optional(parts, 10, ParsePercent(Part(parts, 10))),
     cumProfit |-> Optional(parts, 11, ParseDollars(Part(parts, 11))),
     cumProfitPct |-> Optional(parts, 12, ParsePercent(Part(parts, 12))),
     backtestingProfit |-> Optional(parts, 13, ParseDollars(Part(parts, 13))),
     slippage |-> Optional(parts, 14, ParseDollars(Part(parts, 14))),
     slippagePerContract |-> Optional(parts, 15, ParseDollars(Part(parts, 15))),
     totalContracts |-> Optional(parts, 16, ParseInt(Part(parts, 16)))]

\* whether a statement of the try block throws for these tokens: new Date,
\* String.replace, parseFloat and parseInt return a value for every string
TryThrows(parts) == FALSE

\* one call of the forEach callback: the trades pushed for the line
ParseLine(line, algorithm) ==
    LET parts == Tokenize(line)
    IN  IF ~EnoughParts(parts) THEN <<>>
        ELSE IF TryThrows(parts) THEN <<>>
        ELSE <<TradeOf(parts, algorithm)>>

\* text.split('\n').slice(2)
DataLines(lines) == SubSeq(lines, 3, Len(lines))

RECURSIVE ParseLines(_, _, _)
ParseLines(lines, i, algorithm) ==
    IF i > Len(lines) THEN <<>>
    ELSE ParseLine(lines[i], algorithm) \o ParseLines(lines, i + 1, algorithm)

NotParsed == [state |-> "none"]

\* parseAuditedTradeData(text, algorithm)
ParseAuditedTradeData(lines, algorithm) ==
    [state |-> "returned", trades |-> ParseLines(DataLines(lines), 1, algorithm)]

\* the tokens OCR may put in column k of a row of the audited-trade table
Column(k) ==
    CASE k = 1 -> {"1"}
      [] k = 2 -> {"ES"}
      [] k = 3 -> {"Buy"}
      [] k = 4 -> {"Entry"}
      [] k = 5 -> {"2024-01-15", "n/a"}
      [] k = 6 -> {"09:30"}
      [] k = 7 -> {"$4,500", "$1,234,567"}
      [] k = 8 -> {"2"}
      [] k = 9 -> {"$1,250"}
      [] k = 10 -> {"2%"}
      [] OTHER -> {"2"}

TitleLine == <<"List", "of", "Trades">>
HeaderLine == <<"Trade", "Symbol", "Type", "Signal", "Date", "Time", "Price", "Contracts">>
FullRow == <<"1", "ES", "Buy", "Entry", "2024-01-15", "09:30", "$4,500", "2">>

\* the first two lines of a block, if it has them
Headings == {<<>>, <<TitleLine>>, <<TitleLine, HeaderLine>>, <<TitleLine, FullRow>>}

ParserInit ==
    /\ text \in Headings
    /\ parsed = NotParsed

\* OCR recognises the start of another line
NewLine ==
    /\ parsed = NotParsed
    /\ Len(text) < 2 + MaxLines
    /\ text' = Append(text, <<>>)
    /\ UNCHANGED <<parsed, tradeVars, auditVars, curveVars, homeVars>>

\* OCR recognises another token of the last line of the table body
AppendToken(tok) ==
    /\ parsed = NotParsed
    /\ Len(text) > 2
    /\ Len(text[Len(text)]) < MaxTokens
    /\ tok \in Column(Len(text[Len(text)]) + 1)
    /\ text' = [text EXCEPT ![Len(text)] = Append(@, tok)]
    /\ UNCHANGED <<parsed, tradeVars, auditVars, curveVars, homeVars>>

\* the route hands the recognised text to the parser
Parse(algorithm) ==
    /\ parsed = NotParsed
    /\ parsed' = ParseAuditedTradeData(text, algorithm)
    /\ UNCHANGED <<text, tradeVars, auditVars, curveVars, homeVars>>

---------------------------------------------------------------------------
(* Properties of the audit text parser *)

Returned == parsed.state = "returned"

\* the lines of the block after the two heading lines, by their index in text
BodyLines == 3 .. Len(text)

\* the number of body lines up to line i that have the 8 required tokens
RowsUpTo(i) == Cardinality({j \in 3 .. i : Len(text[j]) >= 8})

OptionalFields ==
    {"profit", "profitPct", "cumProfit", "cumProfitPct", "backtestingProfit",
     "slippage", "slippagePerContract", "totalContracts"}

\* C11: the parser returns (it does not throw); a body line with fewer than 8
\* tokens produces no record, so there is one record for each body line with at
\* least 8 tokens, in line order; the record of a line with exactly 8 tokens
\* has every optional field undefined.
C11_EightTokensNoOptionals ==
    Returned =>
        /\ Len(parsed.trades) = RowsUpTo(Len(text))
        /\ \A i \in BodyLines :
               Len(text[i]) = 8 =>
                   LET trade == parsed.trades[RowsUpTo(i)]
                   IN  /\ \A f \in OptionalFields : trade[f] = <<>>
                       /\ trade.symbol = text[i][2] /\ trade.type = text[i][3]
                       /\ trade.signal = text[i][4] /\ trade.time = text[i][6]

\* two heading lines, a line of 7 tokens and a line of 8: one record, of the
\* second line, without optional fields
C11_Witness ==
    /\ Returned
    /\ Len(text) = 4
    /\ Len(text[3]) = 7 /\ Len(text[4]) = 8
    /\ Len(parsed.trades) = 1
    /\ parsed.trades[1].price = Rat(4500, 1)
    /\ parsed.trades[1].contracts = Rat(2, 1)
    /\ \A f \in OptionalFields : parsed.trades[1][f] = <<>>

\* whether the required fields of a body line can be parsed
Parseable(line) == line[5] = "2024-01-15"

\* C12: a body line with at least 8 tokens whose required field cannot be
\* parsed (an unparseable date) yields no record, and the other lines of the
\* block are still parsed: the records are those of the parseable lines.
C12_UnparseableLineSkipped ==
    Returned =>
        /\ Len(parsed.trades) =
               Cardinality({i \in BodyLines : Len(text[i]) >= 8 /\ Parseable(text[i])})
        /\ \A k \in 1 .. Len(parsed.trades) : parsed.trades[k].date.valid

\* the number a currency or percent token stands for: its digits once every
\* "$", "," and "%" is removed
FullValue(tok) ==
    ParseNumber(SelectSeq(Chars(tok), LAMBDA c : c \notin {"$", ",", "%"}))

\* C23: every currency or percent token is parsed with all of its "$", "," and
\* "%" removed: the price, the profit and the profit percentage of a record are
\* the full values of their tokens, so the price token $1,234,567 gives 1234567.
C23_SeparatorsStripped ==
    Returned =>
        \A i \in BodyLines :
            Len(text[i]) >= 8 =>
                LET trade == parsed.trades[RowsUpTo(i)]
                IN  /\ trade.price = FullValue(text[i][7])
                    /\ text[i][7] = "$1,234,567" => trade.price = Rat(1234567, 1)
                    /\ Len(text[i]) >= 9 => trade.profit = <<FullValue(text[i][9])>>

---------------------------------------------------------------------------
(* The cohort hook: useCohortData(equityCurve) *)

MaxPoints == 5          \* points of a curve handed to the hook or the statistics
TicksPerMonth == 2      \* ticks to the calendar month

CurveDates == {0, 1, 2}             \* the timestamps of the points
CurvePnLValues == {-200, 300}       \* the pnl of a point

\* startOfMonth(parseISO(date)) as a timestamp
StartOfMonth(date) == (date \div TicksPerMonth) * TicksPerMonth

\* format(startDate, 'yyyy-MM'): the number of the month; the strings of two
\* months compare as their numbers do
MonthKey(date) == date \div TicksPerMonth

\* [...equityCurve].sort((a, b) => time(a.date) - time(b.date)), stable
RECURSIVE InsertByDate(_, _)
InsertByDate(sorted, point) ==
    IF sorted = <<>> THEN <<point>>
    ELSE IF sorted[Len(sorted)].date - point.date <= 0 THEN Append(sorted, point)
    ELSE Append(InsertByDate(SubSeq(sorted, 1, Len(sorted) - 1), point),
                sorted[Len(sorted)])

RECURSIVE SortByDate(_, _)
SortByDate(curve, n) ==
    IF n = 0 THEN <<>> ELSE InsertByDate(SortByDate(curve, n - 1), curve[n])

\* variant: the hook sorts the array it was given
InputSortedInPlace(curve, sortedCurve) == sortedCurve

\* the caller's array after the hook has run: the sort works on a copy
InputAfterSort(curve, sortedCurve) == curve

\* sortedCurve.reduce(... acc.add(startOfMonth(point.date)) ...): the distinct
\* month starts in the order they were first added
RECURSIVE CohortStarts(_, _, _)
CohortStarts(sortedCurve, i, acc) ==
    IF i > Len(sortedCurve) THEN acc
    ELSE LET cohortStart == StartOfMonth(sortedCurve[i].date)
         IN  CohortStarts(sortedCurve, i + 1,
                 IF \E k \in 1 .. Len(acc) : acc[k] = cohortStart
                 THEN acc ELSE Append(acc, cohortStart))

\* variant: a cohort holds the points of its own month alone
InCohortMonth(point, startDate) ==
    point.date >= startDate /\ point.date < startDate + TicksPerMonth

\* the filter of a cohort: parseISO(point.date) >= startDate
InCohort(point, startDate) == point.date >= startDate

\* cohortPoints.map(...): tradeNumber, re-based equity and velocity
RECURSIVE CohortSeries(_, _, _, _)
CohortSeries(cohortPoints, index, initialCapital, cumulativePnl) ==
    IF index > Len(cohortPoints) THEN <<>>
    ELSE LET cumulative == cumulativePnl + cohortPoints[index].pnl
         IN  <<[tradeNumber |-> index,
                equity |-> initialCapital + cumulative,
                velocity |-> cohortPoints[index].pnl]>>
             \o CohortSeries(cohortPoints, index + 1, initialCapital, cumulative)

\* the body of Array.from(cohortStarts).forEach: one cohort for each start
BuildCohorts(sortedCurve, starts, initialCapital) ==
    [k \in 1 .. Len(starts) |->
        [startDate |-> MonthKey(starts[k]),
         data |-> CohortSeries(
                      SelectSeq(sortedCurve, LAMBDA point : InCohort(point, starts[k])),
                      1, initialCapital, 0)]]

\* cohorts.sort((a, b) => a.startDate.localeCompare(b.startDate)), stable
RECURSIVE InsertCohort(_, _)
InsertCohort(sorted, cohort) ==
    IF sorted = <<>> THEN <<cohort>>
    ELSE IF sorted[Len(sorted)].startDate <= cohort.startDate THEN Append(sorted, cohort)
    ELSE Append(InsertCohort(SubSeq(sorted, 1, Len(sorted) - 1), cohort),
                sorted[Len(sorted)])

RECURSIVE SortCohorts(_, _)
SortCohorts(cohorts, n) ==
    IF n = 0 THEN <<>> ELSE InsertCohort(SortCohorts(cohorts, n - 1), cohorts[n])

\* uniqueCohorts.sort(): the keys in ascending order
RECURSIVE SortKeys(_)
SortKeys(keys) ==
    IF keys = {} THEN <<>>
    ELSE LET least == CHOOSE k \in keys : \A other \in keys : k <= other
         IN  <<least>> \o SortKeys(keys \ {least})

\* useCohortData(equityCurve): one cohort for each month start, each holding
\* every point at or after its start
UseCohortDataOf(equityCurve) ==
    IF Len(equityCurve) = 0 THEN [cohorts |-> <<>>, uniqueCohorts |-> <<>>]
    ELSE LET initialCapital == equityCurve[1].equity - equityCurve[1].pnl
             sortedCurve == SortByDate(equityCurve, Len(equityCurve))
             starts == CohortStarts(sortedCurve, 1, <<>>)
             cohorts == BuildCohorts(sortedCurve, starts, initialCapital)
         IN  [cohorts |-> SortCohorts(cohorts, Len(cohorts)),
              uniqueCohorts |-> SortKeys({cohorts[k].startDate : k \in 1 .. Len(cohorts)})]

\* the hook of src/hooks/useCohortData.ts.  Its two nested forEach loops visit
\* every (point, cohortPoint) pair of the curve, the outer loop over point and
\* the inner one over cohortPoint: the visits in that order, by position
Visits(equityCurve) ==
    LET n == Len(equityCurve)
    IN  [k \in 1 .. n * n |->
            [point |-> ((k - 1) \div n) + 1, cohortPoint |-> ((k - 1) % n) + 1]]

\* format(startOfMonth(cohortPointDate), "yyyy-MM"): the key a visit works on
VisitKey(equityCurve, visit) ==
    MonthKey(StartOfMonth(equityCurve[visit.cohortPoint].date))

\* if (cohortPointDate >= pointDate): the visit reaches cohortsMap
ReachesMap(equityCurve, visit) ==
    equityCurve[visit.cohortPoint].date >= equityCurve[visit.point].date

\* if (pointDate >= cohortStartDate), inside the first test: the visit pushes
\* its point onto the cohort of its key
PushesPoint(equityCurve, visit) ==
    /\ ReachesMap(equityCurve, visit)
    /\ equityCurve[visit.point].date >=
           StartOfMonth(equityCurve[visit.cohortPoint].date)

\* if (!cohortsMap.has(key)) cohortsMap.set(key, ...): the keys of the map in
\* the order they entered it, each set by the first visit that reaches the map
\* with it
EnsureCohort(equityCurve) ==
    LET reached == SelectSeq(Visits(equityCurve),
                             LAMBDA visit : ReachesMap(equityCurve, visit))
        sets == SelectSeq([k \in 1 .. Len(reached) |-> k],
                    LAMBDA k : \A e \in 1 .. k - 1 :
                        VisitKey(equityCurve, reached[e]) # VisitKey(equityCurve, reached[k]))
    IN  [k \in 1 .. Len(sets) |-> VisitKey(equityCurve, reached[sets[k]])]

\* cohortData.data.push(...) over the visits of one key: tradeNumber within the
\* cohort, the point's own equity, velocity against the previous entry of the
\* cohort (against the point itself for the first entry)
PushPoint(equityCurve, key) ==
    LET pushed == SelectSeq(Visits(equityCurve),
                      LAMBDA visit : /\ PushesPoint(equityCurve, visit)
                                     /\ VisitKey(equityCurve, visit) = key)
        equityOf(t) == equityCurve[pushed[t].point].equity
    IN  [t \in 1 .. Len(pushed) |->
            [tradeNumber |-> t,
             equity |-> equityOf(t),
             velocity |-> equityOf(t) - (IF t > 1 THEN equityOf(t - 1) ELSE equityOf(t))]]

\* useCohortData(equityCurve) of src/hooks/useCohortData.ts: the cohorts in
\* the order their keys entered the map
UseCohortDataNested(equityCurve) ==
    LET keys == EnsureCohort(equityCurve)
    IN  [cohorts |-> [k \in 1 .. Len(keys) |->
                         [startDate |-> keys[k], data |-> PushPoint(equityCurve, keys[k])]],
         uniqueCohorts |-> SortKeys({keys[k] : k \in 1 .. Len(keys)})]

\* the two hooks of the repository, by the file that holds them
Hooks == {"part_015", "hooks/useCohortData.ts"}

RunHook(hook, equityCurve) ==
    IF hook = "part_015" THEN UseCohortDataOf(equityCurve)
    ELSE UseCohortDataNested(equityCurve)

\* what the caller's array holds after a run of the hook
InputAfter(hook, equityCurve) ==
    IF hook = "part_015"
    THEN InputAfterSort(equityCurve, SortByDate(equityCurve, Len(equityCurve)))
    ELSE equityCurve

NoCohorts == [hook |-> "", runs |-> <<>>]
NoStats == [state |-> "none"]

CurveInit ==
    /\ points = <<>>
    /\ cohortData = NoCohorts
    /\ curveStats = NoStats

CurveCapital == BaseCapital("nq_trades.csv")

\* the equity a new point of the curve has
NextEquity(curve, pnl) ==
    (IF Len(curve) = 0 THEN CurveCapital ELSE curve[Len(curve)].equity) + pnl

\* the aggregator appends a point to the curve (before anything is computed);
\* the points need not be in date order
AddPoint(date, pnl) ==
    /\ cohortData = NoCohorts
    /\ curveStats = NoStats
    /\ Len(points) < MaxPoints
    /\ points' = Append(points, [date |-> date, equity |-> NextEquity(points, pnl),
                                 pnl |-> pnl])
    /\ UNCHANGED <<cohortData, curveStats, tradeVars, auditVars, parserVars, homeVars>>

\* the page renders: the hook computes the cohorts of the curve (useMemo reruns
\* it when the page is given the curve again)
UseCohortData(hook) ==
    /\ Len(cohortData.runs) < 2
    /\ cohortData.hook \in {"", hook}
    /\ cohortData' = [hook |-> hook,
                      runs |-> Append(cohortData.runs, RunHook(hook, points))]
    /\ points' = InputAfter(hook, points)
    /\ UNCHANGED <<curveStats, tradeVars, auditVars, parserVars, homeVars>>

\* the server computes the drawdown statistics of the curve; reading
\* equityCurve[0].equity of an empty curve throws
DrawdownStats ==
    /\ curveStats = NoStats
    /\ curveStats' = IF StatsThrow(points) THEN [state |-> "threw"]
                     ELSE [state |-> "returned", stats |-> CalculateDrawdownStats(points)]
    /\ UNCHANGED <<points, cohortData, tradeVars, auditVars, parserVars, homeVars>>

---------------------------------------------------------------------------
(* Properties of the cohort hook *)

Runs == cohortData.runs

\* the points of the curve in date order, points of one date in curve order
RECURSIVE FromDate(_, _)
FromDate(curve, date) ==
    IF \A i \in 1 .. Len(curve) : curve[i].date < date THEN <<>>
    ELSE SelectSeq(curve, LAMBDA p : p.date = date) \o FromDate(curve, date + 1)

\* the points with timestamp >= the first tick of month m, in date order
MembersOf(m) == FromDate(points, m * TicksPerMonth)

MonthsOf(curve) == {curve[i].date \div TicksPerMonth : i \in 1 .. Len(curve)}

Velocities(cohort) == [i \in 1 .. Len(cohort.data) |-> cohort.data[i].velocity]

\* q is the last Len(q) elements of p
IsSuffix(q, p) ==
    /\ Len(q) <= Len(p)
    /\ \A i \in 1 .. Len(q) : q[i] = p[Len(p) - Len(q) + i]

C14_OneCohortPerMonth ==
    \A r \in 1 .. Len(Runs) :
        LET cohorts == Runs[r].cohorts
        IN  /\ Len(cohorts) = Cardinality(MonthsOf(points))
            /\ {cohorts[k].startDate : k \in 1 .. Len(cohorts)} = MonthsOf(points)
            /\ \A k \in 1 .. Len(cohorts) :
                   LET members == MembersOf(cohorts[k].startDate)
                       data == cohorts[k].data
                   IN  /\ Len(data) = Len(members)
                       /\ \A i \in 1 .. Len(data) :
                              /\ data[i].tradeNumber = i
                              /\ data[i].velocity = members[i].pnl

C30_FirstCohortIsTheCurve ==
    (cohortData.hook = "part_015" /\ Len(points) > 0) =>
        \A r \in 1 .. Len(Runs) :
            LET first == Runs[r].cohorts[1]
            IN  /\ \A c \in 1 .. Len(Runs[r].cohorts) :
                       first.startDate <= Runs[r].cohorts[c].startDate
                /\ Len(first.data) = Len(points)
                /\ \A k \in 1 .. Len(points) : first.data[k].equity = points[k].equity

---------------------------------------------------------------------------
(* Properties of the drawdown statistics of a curve *)

StatsReturned == curveStats.state = "returned"

\* the durations of the recorded drawdown periods
Durations ==
    [i \in 1 .. Len(curveStats.stats.drawdownPeriods) |->
        curveStats.stats.drawdownPeriods[i].duration]

\* the k-th smallest element of a sequence of numbers
KthSmallest(q, k) ==
    CHOOSE v \in {q[i] : i \in 1 .. Len(q)} :
        /\ Cardinality({i \in 1 .. Len(q) : q[i] < v}) < k
        /\ Cardinality({i \in 1 .. Len(q) : q[i] <= v}) >= k

\* C20: medianDrawdownDuration is the middle element of the durations of the
\* recorded periods in ascending order, the lower of the two middle elements
\* when their number is even.
C20_MedianIsLowerMiddle ==
    (StatsReturned /\ Len(Durations) > 0) =>
        curveStats.stats.medianDrawdownDuration
            = KthSmallest(Durations, (Len(Durations) + 1) \div 2)

\* C27: every drawdown period the statistics record has a duration of at
\* least 0 whole days, and maxDrawdownDuration is at least the duration of
\* every recorded period.
C27_DurationsNonNegative ==
    StatsReturned =>
        \A i \in 1 .. Len(Durations) :
            /\ Durations[i] >= 0
            /\ curveStats.stats.maxDrawdownDuration >= Durations[i]

\* the points of the i-th drawdown of the curve: the points below the running
\* peak that i - 1 closing points precede
PeriodPoints(i) ==
    {k \in 1 .. Len(points) :
        /\ BelowPeak(points, k)
        /\ Cardinality({c \in ClosingPoints(points) : c < k}) = i - 1}

\* the deepest decline of the i-th drawdown, in percent of the running peak
\* (which does not change within a drawdown)
DeepestDecline(i) ==
    LET peak == StatsPeakBefore(points, CHOOSE k \in PeriodPoints(i) : TRUE)
        low == CHOOSE e \in {points[k].equity : k \in PeriodPoints(i)} :
                   \A k \in PeriodPoints(i) : e <= points[k].equity
    IN  Rat((peak - low) * 100, peak)

\* C29: the percentage recorded for a drawdown period is the deepest decline
\* from the running peak that a point of the period reaches, and these
\* percentages are the terms avgDrawdownPercent averages.
C29_PeriodPercentIsDeepest ==
    StatsReturned =>
        \A i \in 1 .. Len(curveStats.stats.drawdownPeriods) :
            /\ curveStats.stats.drawdownPeriods[i].drawdown = DeepestDecline(i)
            /\ curveStats.stats.avgDrawdownPercent.terms[i] = DeepestDecline(i)

---------------------------------------------------------------------------
(* The Home page: its selection state and the loadTradeData calls *)

MaxLoads == 3           \* loadTradeData calls of one page (the first and the reloads)

\* the lists of algorithms the selector hands to the page
AlgorithmLists ==
    {<<>>, <<[dataset |-> "nq_trades.csv", units |-> 1]>>,
     <<[dataset |-> "nq_trades.csv", units |-> 2]>>}

\* useState([{ dataset: 'nq_trades.csv', units: 1 }]) and useState(undefined)
InitialSelection ==
    [algorithms |-> <<[dataset |-> "nq_trades.csv", units |-> 1]>>, startDate |-> <<>>]

\* a call of loadTradeData(algorithms, startDate) whose fetch is outstanding
FetchData(sel) ==
    [algorithms |-> sel.algorithms, startDate |-> sel.startDate, state |-> "pending"]

\* loadTradeData: the reply of GET /api/trades to the call (the algorithms
\* parameter is always sent); a reply that is not ok makes the call throw
LoadTradeData(load) == HandleGET(files, load.algorithms, load.startDate)

\* the ProcessedTradeData a call returns
DataOf(reply) ==
    [trades |-> reply.trades, metadata |-> reply.metadata,
     equityCurve |-> reply.equityCurve]

\* the page before it is mounted
HomeIdle ==
    /\ selection = InitialSelection
    /\ loads = <<>>
    /\ chartData = <<>>

\* the page after its first render: the effect has started the first call
HomeInit ==
    /\ selection = InitialSelection
    /\ loads = <<FetchData(InitialSelection)>>
    /\ chartData = <<>>

\* handleAlgorithmsChange(newAlgorithms): the state is set (a new array every
\* time) and the effect starts a call with the new selection
SetAlgorithms(newAlgorithms) ==
    /\ Len(loads) > 0
    /\ Len(loads) < MaxLoads
    /\ selection' = [selection EXCEPT !.algorithms = newAlgorithms]
    /\ loads' = Append(loads, FetchData(selection'))
    /\ UNCHANGED <<chartData, tradeVars, auditVars, parserVars, curveVars>>

\* setStartDate(date || undefined), handleResetDate: the effect starts a call
\* unless the state stays undefined
SetStartDate(date) ==
    /\ Len(loads) > 0
    /\ Len(loads) < MaxLoads
    /\ IF date = <<>> THEN selection.startDate # <<>> ELSE TRUE
    /\ selection' = [selection EXCEPT !.startDate = date]
    /\ loads' = Append(loads, FetchData(selection'))
    /\ UNCHANGED <<chartData, tradeVars, auditVars, parserVars, curveVars>>

\* the fetch of call k settles, whenever it does: fetchData sets chartData to
\* the data, or logs the error the call threw
Settle(k) ==
    /\ k \in 1 .. Len(loads)
    /\ loads[k].state = "pending"
    /\ LET reply == LoadTradeData(loads[k])
       IN  IF reply.status = 200
           THEN /\ loads' = [loads EXCEPT ![k].state = "loaded"]
                /\ chartData' = <<DataOf(reply)>>
           ELSE /\ loads' = [loads EXCEPT ![k].state = "failed"]
                /\ chartData' = chartData
    /\ UNCHANGED <<selection, tradeVars, auditVars, parserVars, curveVars>>

---------------------------------------------------------------------------
(* Properties of the Home page *)

\* every call started so far has completed successfully
AllLoaded == Len(loads) > 0 /\ \A k \in 1 .. Len(loads) : loads[k].state = "loaded"

\* C25: once every loadTradeData call has completed successfully, chartData is
\* the reply for the latest selection of algorithms and start date, in
\* whatever order the replies arrived.
C25_LatestSelectionShown ==
    AllLoaded => chartData = <<DataOf(LoadTradeData(FetchData(selection)))>>

---------------------------------------------------------------------------
(* Specifications *)

AuditIdle ==
    /\ store = {}
    /\ imports = [i \in ImportIds |-> Idle]

ParserIdle ==
    /\ text = <<>>
    /\ parsed = NotParsed

Init ==
    /\ TradeInit
    /\ AuditIdle
    /\ ParserIdle
    /\ CurveInit
    /\ HomeIdle

Next ==
    \/ \E d \in Datasets, entry \in Ticks, exit \in Ticks, pnl \in PnLValues :
           AppendRow(d, entry, exit, pnl)
    \/ \E algorithmsJson \in AlgorithmsJson, startDate \in StartDates :
           GET(algorithmsJson, startDate)

Spec == Init /\ [][Next]_vars

AuditInit ==
    /\ TradeInit
    /\ store \in {{}, {OldRow}}
    /\ imports = [i \in ImportIds |-> Idle]
    /\ ParserIdle
    /\ CurveInit
    /\ HomeIdle

AuditNext ==
    \/ \E i \in ImportIds, form \in Forms, trades \in SeqsUpTo(AuditedTrades, MaxBatch) :
           POST(i, form, trades)
    \/ \E i \in ImportIds, k \in 1 .. MaxBatch : Create(i, k)
    \/ \E i \in ImportIds : Respond(i)

AuditSpec == AuditInit /\ [][AuditNext]_vars

AllTokens == UNION {Column(k) : k \in 1 .. MaxTokens}

ParserSpecInit ==
    /\ TradeInit
    /\ AuditIdle
    /\ ParserInit
    /\ CurveInit
    /\ HomeIdle

ParserNext ==
    \/ NewLine
    \/ \E tok \in AllTokens : AppendToken(tok)
    \/ \E algorithm \in {"ES_Gap"} : Parse(algorithm)

ParserSpec == ParserSpecInit /\ [][ParserNext]_vars

\* the two routes with data on file: requests with and without their
\* required parameters, one selection or one audited trade at most
ValidationInit ==
    /\ files = [d \in Datasets |->
                   IF d = "nq_trades.csv" THEN <<Row(0, 1, 500)>> ELSE <<>>]
    /\ request = [algorithmsJson |-> <<>>, algorithms |-> <<>>, startDate |-> <<>>]
    /\ response = NoResponse
    /\ fileReads = {}
    /\ AuditIdle
    /\ ParserIdle
    /\ CurveInit
    /\ HomeIdle

ValidationNext ==
    \/ \E algorithmsJson \in {<<>>} \cup {<<<<algo>>>> : algo \in Selections},
          startDate \in StartDates :
           GET(algorithmsJson, startDate)
    \/ \E i \in ImportIds, form \in Forms, trades \in SeqsUpTo(AuditedTrades, 1) :
           POST(i, form, trades)
    \/ \E i \in ImportIds : Create(i, 1)
    \/ \E i \in ImportIds : Respond(i)

ValidationSpec == ValidationInit /\ [][ValidationNext]_vars

CurveNext ==
    \/ \E date \in CurveDates, pnl \in CurvePnLValues : AddPoint(date, pnl)
    \/ \E hook \in Hooks : UseCohortData(hook)
    \/ DrawdownStats

CurveSpec == Init /\ [][CurveNext]_vars

\* the Home page over a trade file of two rows
HomeSpecInit ==
    /\ files = [d \in Datasets |->
                   IF d = "nq_trades.csv" THEN <<Row(0, 1, 500), Row(1, 1, -200)>>
                   ELSE <<>>]
    /\ request = [algorithmsJson |-> <<>>, algorithms |-> <<>>, startDate |-> <<>>]
    /\ response = NoResponse
    /\ fileReads = {}
    /\ AuditIdle
    /\ ParserIdle
    /\ CurveInit
    /\ HomeInit

HomeNext ==
    \/ \E newAlgorithms \in AlgorithmLists : SetAlgorithms(newAlgorithms)
    \/ \E date \in StartDates : SetStartDate(date)
    \/ \E k \in 1 .. MaxLoads : Settle(k)

HomeSpec == HomeSpecInit /\ [][HomeNext]_vars

\* one audit import with a store that may fail a create
FaultNext ==
    \/ \E trades \in SeqsUpTo(AuditedTrades, MaxBatch) : POST(1, CompleteForm, trades)
    \/ \E k \in 1 .. MaxBatch : Create(1, k)
    \/ \E k \in 1 .. MaxBatch : CreateFails(1, k)
    \/ Respond(1)

FaultSpec == AuditInit /\ [][FaultNext]_vars

=============================================================================
